---- MODULE Spec2Model ----
(***************************************************************************)
(* Model of scripts/meshcore-enum-generator/meshcore_enum_generator.py:    *)
(* the MeshCore enum synchronisation run (download, extract, classify,     *)
(* diff, approve, merge, validate, write) and the pure functions it uses.  *)
(*                                                                         *)
(* Text is modelled as text: a Python or Swift string is a sequence of     *)
(* one-character strings, so lower-casing, splitting, prefix tests and     *)
(* number formatting/parsing are computed as the code computes them.       *)
(***************************************************************************)
EXTENDS Integers, Sequences, FiniteSets, TLC

(***************************************************************************)
(* Characters and strings                                                  *)
(***************************************************************************)
UpperChars ==
    << "A", "B", "C", "D", "E", "F", "G", "H", "I", "J", "K", "L", "M",
       "N", "O", "P", "Q", "R", "S", "T", "U", "V", "W", "X", "Y", "Z" >>

LowerChars ==
    << "a", "b", "c", "d", "e", "f", "g", "h", "i", "j", "k", "l", "m",
       "n", "o", "p", "q", "r", "s", "t", "u", "v", "w", "x", "y", "z" >>

DigitChars ==
    << "0", "1", "2", "3", "4", "5", "6", "7", "8", "9",
       "A", "B", "C", "D", "E", "F" >>

\* Position of character c in the sequence s, 0 when absent (str.find + 1).
IndexOf(c, s) ==
    IF \E i \in 1..Len(s) : s[i] = c
    THEN CHOOSE i \in 1..Len(s) : s[i] = c /\ \A j \in 1..(i - 1) : s[j] # c
    ELSE 0

LowerChar(c) ==
    LET i == IndexOf(c, UpperChars) IN IF i = 0 THEN c ELSE LowerChars[i]

UpperChar(c) ==
    LET i == IndexOf(c, LowerChars) IN IF i = 0 THEN c ELSE UpperChars[i]

RECURSIVE MapLower(_)
MapLower(s) ==
    IF s = << >> THEN << >> ELSE << LowerChar(Head(s)) >> \o MapLower(Tail(s))

\* str.lower()
Lower(s) == MapLower(s)

\* str.capitalize(): first character upper-cased, the rest lower-cased.
Capitalize(s) ==
    IF s = << >> THEN << >> ELSE << UpperChar(Head(s)) >> \o Lower(Tail(s))

\* str.startswith(prefix)
StartsWith(s, prefix) ==
    /\ Len(prefix) <= Len(s)
    /\ SubSeq(s, 1, Len(prefix)) = prefix

\* `sub in s` for strings.
Contains(s, sub) ==
    \E i \in 1..(Len(s) - Len(sub) + 1) : SubSeq(s, i, i + Len(sub) - 1) = sub

\* str.split(sep) for a one-character separator: always at least one part.
RECURSIVE Split(_, _)
Split(s, sep) ==
    LET i == IndexOf(sep, s) IN
    IF i = 0 THEN << s >>
    ELSE << SubSeq(s, 1, i - 1) >> \o Split(SubSeq(s, i + 1, Len(s)), sep)

\* ''.join(parts)
RECURSIVE Join(_)
Join(parts) ==
    IF parts = << >> THEN << >> ELSE Head(parts) \o Join(Tail(parts))

\* str.replace(c, '') for a one-character c.
RECURSIVE RemoveChar(_, _)
RemoveChar(s, c) ==
    IF s = << >> THEN << >>
    ELSE (IF Head(s) = c THEN << >> ELSE << Head(s) >>) \o RemoveChar(Tail(s), c)

RECURSIVE MapCapitalize(_)
MapCapitalize(parts) ==
    IF parts = << >> THEN << >>
    ELSE << Capitalize(Head(parts)) >> \o MapCapitalize(Tail(parts))

\* Digits of n in the given base, most significant first ("0" for 0).
RECURSIVE ToDigits(_, _)
ToDigits(n, base) ==
    IF n < base THEN << DigitChars[n + 1] >>
    ELSE ToDigits(n \div base, base) \o << DigitChars[(n % base) + 1] >>

\* int(s, base) for a string of digits (hex digits in either case).
RECURSIVE FromDigits(_, _, _)
FromDigits(s, base, acc) ==
    IF s = << >> THEN acc
    ELSE FromDigits(Tail(s), base,
                    acc * base + (IndexOf(UpperChar(Head(s)), DigitChars) - 1))

\* f"0x{value:02X}": upper-case hex, zero-padded to two digits.
HexLiteral(value) ==
    LET d == ToDigits(value, 16) IN
    << "0", "x" >> \o (IF Len(d) < 2 THEN << "0" >> \o d ELSE d)

\* str(value) for a non-negative integer.
DecLiteral(value) == ToDigits(value, 10)

(***************************************************************************)
(* MeshCoreExtractor                                                       *)
(***************************************************************************)
\* _normalize_name: SCREAMING_SNAKE_CASE -> lowerCamelCase.
NormalizeName(name) ==
    LET parts == Split(Lower(name), "_") IN
    Head(parts) \o Join(MapCapitalize(Tail(parts)))

\* An assignment of an integer literal in a class body, as _extract_enum_case
\* and _evaluate_constant keep it: the target name and the value.
Assignment(original_name, value) ==
    [original_name |-> original_name, value |-> value, is_int |-> TRUE]

\* An assignment of anything else (a string, a call, a tuple), for which
\* _evaluate_constant gives None.
OtherAssignment(original_name) ==
    [original_name |-> original_name, value |-> 0, is_int |-> FALSE]

\* A class definition of the source tree: its name, the names of its bases,
\* the path of its file relative to the source directory, and the
\* assignments of its body in source order.
ClassDef(name, bases, path, assignments) ==
    [name |-> name, bases |-> bases, path |-> path, assignments |-> assignments]

Str_req == << "r", "e", "q" >>
Str_cmd == << "c", "m", "d" >>
Str_command == << "c", "o", "m", "m", "a", "n", "d" >>
Str_binary == << "b", "i", "n", "a", "r", "y" >>
Str_resp == << "r", "e", "s", "p" >>
Str_response == << "r", "e", "s", "p", "o", "n", "s", "e" >>
Str_event == << "e", "v", "e", "n", "t" >>
Str_packet == << "p", "a", "c", "k", "e", "t" >>
Str_type == << "t", "y", "p", "e" >>
Str_handler == << "h", "a", "n", "d", "l", "e", "r" >>
Str_base == << "b", "a", "s", "e" >>
Str_commands == << "c", "o", "m", "m", "a", "n", "d", "s" >>
Str_PacketType == << "P", "a", "c", "k", "e", "t", "T", "y", "p", "e" >>
Str_BinaryReqType ==
    << "B", "i", "n", "a", "r", "y", "R", "e", "q", "T", "y", "p", "e" >>
Str_ControlType == << "C", "o", "n", "t", "r", "o", "l", "T", "y", "p", "e" >>

\* _is_int_enum_subclass
IsIntEnumSubclass(class_node) ==
    /\ ~ \E skip_word \in {Str_command, Str_handler, Str_base} :
            Contains(Lower(class_node.name), skip_word)
    /\ \E i \in 1..Len(class_node.bases) : class_node.bases[i] \in {"IntEnum", "Enum"}

\* An EnumCase (lines 42-49) is [name, value, original_name]; source_file and
\* line_number are carried by the code only into messages and are left out.
EnumCase(original_name, value) ==
    [name |-> NormalizeName(original_name), value |-> value,
     original_name |-> original_name]

RECURSIVE ExtractCases(_)
ExtractCases(assignments) ==
    IF assignments = << >> THEN << >>
    ELSE (IF Head(assignments).is_int
          THEN << EnumCase(Head(assignments).original_name, Head(assignments).value) >>
          ELSE << >>)
         \o ExtractCases(Tail(assignments))

\* _extract_int_enum: the definitions (none or one) a class yields.
ExtractIntEnum(class_node) ==
    LET cases == ExtractCases(class_node.assignments) IN
    IF ~IsIntEnumSubclass(class_node) THEN << >>
    ELSE IF Len(cases) < 2 THEN << >>
    ELSE IF class_node.name \in {Str_BinaryReqType, Str_ControlType}
            \/ Contains(Lower(class_node.path), Str_commands)
    THEN << >>
    ELSE IF class_node.name # Str_PacketType THEN << >>
    ELSE << [name |-> class_node.name, cases |-> cases,
             source_file |-> class_node.path] >>

\* A dict that keeps the value a key already has.
DictPutKeepFirst(enums, enum_def) ==
    IF \E i \in 1..Len(enums) : enums[i].name = enum_def.name
    THEN enums
    ELSE Append(enums, enum_def)

\* self.enums[enum_def.name] = enum_def: a dict keeps the position of a key
\* it already holds and replaces the value.
DictPut(enums, enum_def) ==
    IF \E i \in 1..Len(enums) : enums[i].name = enum_def.name
    THEN [i \in 1..Len(enums) |->
            IF enums[i].name = enum_def.name THEN enum_def ELSE enums[i]]
    ELSE Append(enums, enum_def)

RECURSIVE ExtractInto(_, _)
ExtractInto(classes, enums) ==
    IF classes = << >> THEN enums
    ELSE LET found == ExtractIntEnum(Head(classes)) IN
         ExtractInto(Tail(classes),
                     IF found = << >> THEN enums ELSE DictPut(enums, found[1]))

\* extract_all_enums over the classes of the tree in the order of the walk.
ExtractAllEnums(classes) == ExtractInto(classes, << >>)

Groups == <<"CommandCode", "ResponseCode", "PushCode">>

GroupSet == {Groups[i] : i \in 1..Len(Groups)}

\* The value-range boundary between response codes and push codes.
PushBoundary == 128

SeqToSet(s) == {s[i] : i \in 1..Len(s)}

\* _detect_target_enums_dynamic with the response test ahead of the command
\* test.
DetectTargetEnumsDynamicResponseFirst(enum_def) ==
    LET enum_name == Lower(enum_def.name)
        values == {enum_def.cases[i].value : i \in 1..Len(enum_def.cases)}
        has(keywords) == \E k \in keywords : Contains(enum_name, k)
    IN  IF has({Str_resp, Str_response, Str_event})
        THEN (IF \E v \in values : v >= PushBoundary
              THEN << "PushCode" >> ELSE << "ResponseCode" >>)
        ELSE IF has({Str_req, Str_cmd, Str_command, Str_binary})
        THEN << "CommandCode" >>
        ELSE IF Contains(enum_name, Str_packet)
        THEN << "ResponseCode", "PushCode" >>
        ELSE IF values = {}
        THEN << >>
        ELSE IF \A v \in values : v < PushBoundary
        THEN << "ResponseCode" >>
        ELSE IF \A v \in values : v >= PushBoundary
        THEN << "PushCode" >>
        ELSE << "ResponseCode", "PushCode" >>

\* _detect_target_enums_dynamic: the groups a definition contributes to.
DetectTargetEnumsDynamic(enum_def) ==
    LET enum_name == Lower(enum_def.name)
        values == {enum_def.cases[i].value : i \in 1..Len(enum_def.cases)}
        has(keywords) == \E k \in keywords : Contains(enum_name, k)
    IN  IF has({Str_req, Str_cmd, Str_command, Str_binary})
        THEN << "CommandCode" >>
        ELSE IF has({Str_resp, Str_response, Str_event})
        THEN (IF \E v \in values : v >= PushBoundary
              THEN << "PushCode" >> ELSE << "ResponseCode" >>)
        ELSE IF Contains(enum_name, Str_packet)
        THEN << "ResponseCode", "PushCode" >>
        ELSE IF has({Str_event, Str_type}) /\ values = {}
        THEN << >>
        ELSE IF values = {}
        THEN << >>
        ELSE IF \A v \in values : v < PushBoundary
        THEN << "ResponseCode" >>
        ELSE IF \A v \in values : v >= PushBoundary
        THEN << "PushCode" >>
        ELSE << "ResponseCode", "PushCode" >>

\* The inner loop without the test of seen_cases.
RECURSIVE MapCasesNoSeenTest(_, _, _)
MapCasesNoSeenTest(cases, targets, acc) ==
    IF cases = << >> THEN acc
    ELSE MapCasesNoSeenTest(Tail(cases), targets,
            [seen |-> acc.seen \cup {<< Head(cases).name, Head(cases).value >>},
             enums |-> [g \in GroupSet |->
                          IF g \in SeqToSet(targets)
                          THEN Append(acc.enums[g], Head(cases))
                          ELSE acc.enums[g]]])

\* The inner loop of map_to_swift_enums (lines 223-232) over one definition.
RECURSIVE MapCases(_, _, _)
MapCases(cases, targets, acc) ==
    IF cases = << >> THEN acc
    ELSE LET case == Head(cases)
             case_key == << case.name, case.value >>
         IN  IF case_key \in acc.seen
             THEN MapCases(Tail(cases), targets, acc)
             ELSE MapCases(Tail(cases), targets,
                    [seen |-> acc.seen \cup {case_key},
                     enums |-> [g \in GroupSet |->
                                  IF g \in SeqToSet(targets)
                                  THEN Append(acc.enums[g], case)
                                  ELSE acc.enums[g]]])

\* The outer loop with seen_cases emptied for every definition.
RECURSIVE MapDefsSeenPerDefinition(_, _)
MapDefsSeenPerDefinition(defs, acc) ==
    IF defs = << >> THEN acc
    ELSE MapDefsSeenPerDefinition(Tail(defs),
            MapCases(Head(defs).cases, DetectTargetEnumsDynamic(Head(defs)),
                     [seen |-> {}, enums |-> acc.enums]))

\* The outer loop of map_to_swift_enums (lines 220-232).
RECURSIVE MapDefs(_, _)
MapDefs(defs, acc) ==
    IF defs = << >> THEN acc
    ELSE MapDefs(Tail(defs),
                 MapCases(Head(defs).cases, DetectTargetEnumsDynamic(Head(defs)), acc))

\* map_to_swift_enums over self.enums.values(), given in insertion order.
MapToSwiftEnums(enums) ==
    MapDefs(enums, [seen |-> {}, enums |-> [g \in GroupSet |-> << >>]]).enums

(***************************************************************************)
(* SwiftAnalyzer: values, parsing, diff                                    *)
(***************************************************************************)
\* _parse_swift_value (and lines 611-614): hex with a 0x/0X prefix, else decimal.
ParseSwiftValue(value_str) ==
    IF StartsWith(value_str, << "0", "x" >>) \/ StartsWith(value_str, << "0", "X" >>)
    THEN FromDigits(SubSeq(value_str, 3, Len(value_str)), 16, 0)
    ELSE FromDigits(value_str, 10, 0)

\* _format_swift_value
FormatSwiftValue(value, source_context) ==
    IF value >= PushBoundary \/ StartsWith(source_context, << "0", "x" >>)
    THEN HexLiteral(value)
    ELSE DecLiteral(value)

NoComment == << >>

\* A line "    case <name> = <value>[,][ // <comment>]" of the target file.
CaseLine(name, value_str, comment, comma) ==
    [name |-> name, value |-> value_str, comment |-> comment, comma |-> comma]

\* A SwiftEnumCase (lines 67-73) without its line_number (diagnostics only).
SwiftEnumCase(name, value, comment) ==
    [name |-> name, value |-> value, comment |-> comment]

RECURSIVE ParseCaseLines(_)
\* The case loop of _parse_existing_enums / _parse_new_cases_from_code.
ParseCaseLines(lines) ==
    IF lines = << >> THEN << >>
    ELSE << SwiftEnumCase(Head(lines).name, ParseSwiftValue(Head(lines).value),
                          Head(lines).comment) >>
         \o ParseCaseLines(Tail(lines))

\* normalize_swift_name (lines 466-469): the split keeps every character, so
\* the result is the name lower-cased with its underscores removed.
NormalizeSwiftName(name) == RemoveChar(Lower(name), "_")

\* The classification of one extracted case (lines 474-483).
ClassifyCase(py_case, swift_cases) ==
    LET swift_normalized_map ==
            {<< NormalizeSwiftName(swift_cases[i].name), swift_cases[i].value >> :
                i \in 1..Len(swift_cases)}
        swift_value_map == {swift_cases[i].value : i \in 1..Len(swift_cases)}
        py_key == << Lower(py_case.name), py_case.value >>
    IN  IF py_key \in swift_normalized_map THEN "covered"
        ELSE IF py_case.value \in swift_value_map THEN "duplicate"
        ELSE "addition"

\* _analyze_enum_changes with the duplicate test as an `if` of its own instead
\* of an `elif`: a covered case whose value is taken is also a duplicate.
AnalyzeEnumChangesSeparateIf(enum_name, python_cases, swift_cases) ==
    LET isAddition(c) == ClassifyCase(c, swift_cases) = "addition"
        isDuplicate(c) == \E i \in 1..Len(swift_cases) : swift_cases[i].value = c.value
    IN  [target_enum |-> enum_name,
         additions |-> SelectSeq(python_cases, isAddition),
         updates |-> << >>,
         duplicates |-> SelectSeq(python_cases, isDuplicate),
         swift_extras |-> << >>]

\* _analyze_enum_changes without the duplicate branch: every case that is not
\* covered is an addition.
AnalyzeEnumChangesNoDuplicates(enum_name, python_cases, swift_cases) ==
    LET isAddition(c) == ClassifyCase(c, swift_cases) # "covered"
    IN  [target_enum |-> enum_name,
         additions |-> SelectSeq(python_cases, isAddition),
         updates |-> << >>,
         duplicates |-> << >>,
         swift_extras |-> << >>]

\* _analyze_enum_changes
AnalyzeEnumChanges(enum_name, python_cases, swift_cases) ==
    LET isAddition(c) == ClassifyCase(c, swift_cases) = "addition"
        isDuplicate(c) == ClassifyCase(c, swift_cases) = "duplicate"
        py_case_names == {python_cases[i].name : i \in 1..Len(python_cases)}
        py_case_values == {python_cases[i].value : i \in 1..Len(python_cases)}
        isExtra(s) == s.name \notin py_case_names /\ s.value \notin py_case_values
    IN  [target_enum |-> enum_name,
         additions |-> SelectSeq(python_cases, isAddition),
         updates |-> << >>,
         duplicates |-> SelectSeq(python_cases, isDuplicate),
         swift_extras |-> SelectSeq(swift_cases, isExtra)]

\* The diff without the value-range filter.
FilterByRangeNone(enum_name, python_cases) == python_cases

\* The value-range filter of analyze_changes (lines 444-448).
FilterByRange(enum_name, python_cases) ==
    LET low(c) == c.value < PushBoundary
        high(c) == c.value >= PushBoundary
    IN  IF enum_name = "ResponseCode" THEN SelectSeq(python_cases, low)
        ELSE IF enum_name = "PushCode" THEN SelectSeq(python_cases, high)
        ELSE python_cases

\* analyze_changes: one ChangeAnalysis per group, in the fixed group order.
AnalyzeChanges(python_enums, swift_enums) ==
    [i \in 1..Len(Groups) |->
        AnalyzeEnumChanges(Groups[i], FilterByRange(Groups[i], python_enums[Groups[i]]),
                           swift_enums[Groups[i]])]

(***************************************************************************)
(* The target file.  Its text is a record: the version-marker comment      *)
(* (empty when absent), and for each group the block of that group: how   *)
(* the block can be located and its case lines.  A block of form "regex"   *)
(* is matched by the pattern of lines 396/530; one of form "lines" has the *)
(* header on a line but not in the pattern's shape (only the line scan of  *)
(* _parse_enum_by_lines finds it); form "none" is a missing block.  Text   *)
(* that is not Swift source at all (the validator's diagnostics) has       *)
(* kind "diag" and no blocks.                                              *)
(***************************************************************************)
NoMarker == << >>

Block(form, lines) == [form |-> form, lines |-> lines]

NoBlock == Block("none", << >>)

SwiftText(marker, blocks) ==
    [kind |-> "swift", marker |-> marker, blocks |-> blocks, formatted |-> FALSE]

\* The text of swiftc's stderr / an error message.
DiagText ==
    [kind |-> "diag", marker |-> NoMarker, blocks |-> [g \in GroupSet |-> NoBlock],
     formatted |-> FALSE]

\* The target file when it does not exist.
NoFile ==
    [kind |-> "absent", marker |-> NoMarker, blocks |-> [g \in GroupSet |-> NoBlock],
     formatted |-> FALSE]

\* _parse_existing_enums: the cases of every block the pattern finds.
ParseExistingEnums(text) ==
    [g \in GroupSet |->
        IF text.blocks[g].form = "regex"
        THEN ParseCaseLines(text.blocks[g].lines)
        ELSE << >>]

RECURSIVE InsertByValue(_, _)
InsertByValue(x, sorted) ==
    IF sorted = << >> THEN << x >>
    ELSE IF Head(sorted).value <= x.value
         THEN << Head(sorted) >> \o InsertByValue(x, Tail(sorted))
         ELSE << x >> \o sorted

RECURSIVE SortInto(_, _)
SortInto(s, acc) ==
    IF s = << >> THEN acc ELSE SortInto(Tail(s), InsertByValue(Head(s), acc))

\* sorted(cases, key=lambda c: c.value): ascending and stable.
SortByValue(cases) == SortInto(cases, << >>)

RECURSIVE GenerateLines(_, _)
GenerateLines(sorted_cases, version_tag) ==
    IF sorted_cases = << >> THEN << >>
    ELSE LET case == Head(sorted_cases) IN
         << CaseLine(case.name,
                     FormatSwiftValue(case.value, case.original_name),
                     << "Python", case.original_name, version_tag >>,
                     FALSE) >>
         \o GenerateLines(Tail(sorted_cases), version_tag)

\* generate_swift_cases: the new lines, one per case, without commas.
GenerateSwiftCases(cases, version_tag) ==
    GenerateLines(SortByValue(cases), version_tag)

\* _parse_new_cases_from_code
ParseNewCasesFromCode(new_cases_code) == ParseCaseLines(new_cases_code)

\* The number of capture groups of enum_pattern (line 530).
EnumPatternGroups == 1

HexNamePrefixes ==
    { << "n", "o", "d", "e" >>, << "p", "a", "t", "h" >>, << "s", "e", "n", "d" >>,
      << "s", "e", "t" >>, << "g", "e", "t" >>, Str_req, Str_resp }

\* Lines 553-563: the re-rendered lines of a block, comma on all but the last.
RenderEnumLines(sorted_cases) ==
    [i \in 1..Len(sorted_cases) |->
        LET case == sorted_cases[i] IN
        CaseLine(case.name,
                 IF case.value < 256
                    /\ ((\E pre \in HexNamePrefixes : StartsWith(case.name, pre))
                        \/ case.value >= PushBoundary)
                 THEN HexLiteral(case.value)
                 ELSE DecLiteral(case.value),
                 case.comment,
                 i < Len(sorted_cases))]

\* The result of a step that may raise: the new text, or the exception.
Returned(text) == [ok |-> TRUE, text |-> text, error |-> "none"]

Raised(error, text) == [ok |-> FALSE, text |-> text, error |-> error]

\* _parse_enum_by_lines appending the lines when it finds no block.
ParseEnumByLinesNoRaise(content, enum_name, new_cases_code) ==
    Returned([content EXCEPT
                !.blocks[enum_name] =
                    Block("lines", content.blocks[enum_name].lines \o new_cases_code)])

\* _parse_enum_by_lines: splice the new lines before the closing brace.
ParseEnumByLines(content, enum_name, new_cases_code) ==
    LET block == content.blocks[enum_name] IN
    IF block.form = "none"
    THEN Raised("RuntimeError", content)
    ELSE Returned([content EXCEPT
                     !.blocks[enum_name].lines = block.lines \o new_cases_code])

\* insert_cases_into_swift_file.  enum_match.group(2) (line 539) raises
\* IndexError when the pattern has fewer than two groups.
InsertCasesIntoSwiftFile(content, swift_enums, target_enum, new_cases_code) ==
    LET block == content.blocks[target_enum]
        new_cases == ParseNewCasesFromCode(new_cases_code)
        sorted_cases == SortByValue(swift_enums[target_enum] \o new_cases)
    IN  IF block.form # "regex"
        THEN ParseEnumByLines(content, target_enum, new_cases_code)
        ELSE IF EnumPatternGroups < 2
        THEN Raised("IndexError", content)
        ELSE IF new_cases = << >>
        THEN Returned(content)
        ELSE Returned([content EXCEPT
                         !.blocks[target_enum].lines = RenderEnumLines(sorted_cases)])

\* The outcomes of the external tools in validate_swift_syntax:
\*   "error"          swiftc cannot be run or times out (lines 669-672)
\*   "invalid"        swiftc rejects the text
\*   "valid_plain"    swiftc accepts; swiftformat is absent or fails
\*   "valid_formatted" swiftc accepts, swiftformat runs, the re-check passes
\*   "format_broken"  swiftc accepts, swiftformat runs, the re-check fails
ValidationOutcomes ==
    {"error", "invalid", "valid_plain", "valid_formatted", "format_broken"}

\* swiftformat's rendering of a text: the same declarations, reformatted.
SwiftFormat(content) == [content EXCEPT !.formatted = TRUE]

\* validate_swift_syntax reporting a rejected text the way it reports a broken
\* formatting: (True, error_output).
ValidateSwiftSyntaxAlwaysValid(content, outcome) ==
    IF outcome = "valid_formatted"
    THEN [is_valid |-> TRUE, result |-> SwiftFormat(content)]
    ELSE [is_valid |-> TRUE, result |-> DiagText]

\* validate_swift_syntax: (is_valid, result).  The second component is the
\* formatted text only on the "valid_formatted" path; on every other path it
\* is error_output.
ValidateSwiftSyntax(content, outcome) ==
    CASE outcome = "error" -> [is_valid |-> FALSE, result |-> DiagText]
      [] outcome = "invalid" -> [is_valid |-> FALSE, result |-> DiagText]
      [] outcome = "valid_plain" -> [is_valid |-> TRUE, result |-> DiagText]
      [] outcome = "valid_formatted" ->
            [is_valid |-> TRUE, result |-> SwiftFormat(content)]
      [] outcome = "format_broken" -> [is_valid |-> TRUE, result |-> DiagText]

\* Line 902: result is a str on every path, so it is always what is written.
FinalContent(result, content) == result

\* _update_version_comment: replace the marker line, or add it at the top.
UpdateVersionComment(text, version_tag) == [text EXCEPT !.marker = version_tag]

(***************************************************************************)
(* GitHubDownloader and the version tag                                    *)
(***************************************************************************)
MAX_RETRIES == 3

\* time.sleep(2 ** attempt)
Backoff(attempt) == 2 ^ attempt

\* The last-attempt test off by one: attempt == MAX_RETRIES.
IsLastAttemptOffByOne(attempt) == attempt = MAX_RETRIES

\* Lines 317 and 352: the attempt after which the error is terminal.
IsLastAttempt(attempt) == attempt = MAX_RETRIES - 1

Str_unknown == << "u", "n", "k", "n", "o", "w", "n" >>

RECURSIVE LStrip(_, _)
\* str.lstrip(c) for a one-character c.
LStrip(s, c) ==
    IF s # << >> /\ Head(s) = c THEN LStrip(Tail(s), c) ELSE s

\* str.isdigit()
IsDigit(s) ==
    /\ s # << >>
    /\ \A i \in 1..Len(s) : IndexOf(s[i], SubSeq(DigitChars, 1, 10)) # 0

\* _extract_version_from_path
ExtractVersionFromPath(dir_name) ==
    LET i == IndexOf("-", dir_name)
        potential_version == SubSeq(dir_name, i + 1, Len(dir_name))
    IN  IF i # 0 /\ IsDigit(RemoveChar(RemoveChar(potential_version, "."), "v"))
        THEN LStrip(potential_version, "v")
        ELSE Str_unknown

(***************************************************************************)
(* Bounds and inputs                                                       *)
(***************************************************************************)
\* Longest list of integer assignments in an extracted class.
MaxPyCases == 2

\* Longest list of case lines in a block of the target file.
MaxSwiftCases == 2

\* Largest --max-additions value tried besides the default.
MaxThreshold == 1

\* The default of --max-additions.
DefaultMaxAdditions == 50

SeqsUpTo(S, n) == UNION {[1..k -> S] : k \in 0..n}

\* Integer assignments an upstream class may hold.
PyUniverse ==
    { Assignment(<< "A" >>, 1), Assignment(<< "C" >>, 3), Assignment(<< "Y" >>, 5),
      Assignment(<< "B" >>, 7), Assignment(<< "P", "_", "A" >>, 129) }

\* Case lines a block of the target file may hold.
SwiftUniverse ==
    { CaseLine(<< "A" >>, << "1" >>, NoComment, FALSE),
      CaseLine(<< "B" >>, << "2" >>, NoComment, FALSE),
      CaseLine(<< "X" >>, << "5" >>, NoComment, FALSE),
      CaseLine(<< "p", "A" >>, << "0", "x", "8", "1" >>, NoComment, FALSE) }

PyLists == SeqsUpTo(PyUniverse, MaxPyCases)

RECURSIVE SetToSeq(_)
\* The elements of a finite set as a sequence, in some fixed order.
SetToSeq(S) ==
    IF S = {} THEN << >>
    ELSE LET x == CHOOSE x \in S : TRUE IN << x >> \o SetToSeq(S \ {x})

\* Bodies of the upstream class in a run: distinct assignments, by value.
PyBodies ==
    {SortByValue(SetToSeq(S)) : S \in {T \in SUBSET PyUniverse : Cardinality(T) <= MaxPyCases}}

SwiftLists == SeqsUpTo(SwiftUniverse, MaxSwiftCases)

\* Values of --max-additions.
Thresholds == (0..MaxThreshold) \cup {DefaultMaxAdditions}

\* The parsed command line: --apply, --auto-approve, --force, --max-additions.
ArgSets ==
    [apply : BOOLEAN, auto_approve : BOOLEAN, force : BOOLEAN,
     max_additions : Thresholds]

OldMarker == << "2", ".", "0" >>

\* Target files of a run.  The commands block is fixed; the response block
\* holds any of three case lists and the push block one, each block in any
\* of the forms.
RunResponseLines ==
    { << CaseLine(<< "A" >>, << "1" >>, NoComment, FALSE),
         CaseLine(<< "B" >>, << "2" >>, NoComment, FALSE) >>,
      << CaseLine(<< "X" >>, << "5" >>, NoComment, FALSE) >>,
      << >> }

RunPushLines ==
    { << CaseLine(<< "p", "A" >>, << "0", "x", "8", "1" >>, NoComment, FALSE) >> }

BlocksOf(lineLists) ==
    {Block(form, lines) : form \in {"regex", "lines"}, lines \in lineLists}
        \cup {NoBlock}

TargetFiles ==
    { SwiftText(marker,
                [g \in GroupSet |->
                    IF g = "ResponseCode" THEN rb
                    ELSE IF g = "PushCode" THEN pb
                    ELSE Block("regex",
                               << CaseLine(<< "g", "o" >>, << "1" >>, NoComment, FALSE) >>)]) :
        marker \in {NoMarker, OldMarker},
        rb \in BlocksOf(RunResponseLines),
        pb \in BlocksOf(RunPushLines) \ {NoBlock} }

\* A downloaded and unpacked release: the directory name and its classes.
SourceTree(dir_name, classes) == [dir_name |-> dir_name, classes |-> classes]

NoSource == SourceTree(<< >>, << >>)

Str_EventType == << "E", "v", "e", "n", "t", "T", "y", "p", "e" >>

SourceTrees ==
    { SourceTree(<< "m", "-", "v", "2", ".", "1" >>,
                 << ClassDef(Str_PacketType, << "IntEnum" >>,
                             << "p", ".", "p", "y" >>, assignments) >>) :
        assignments \in PyBodies }
    \cup
    { SourceTree(<< "m", "a", "i", "n" >>,
                 << ClassDef(Str_EventType, << "Enum" >>, << "e", ".", "p", "y" >>,
                             << Assignment(<< "C" >>, 3), Assignment(<< "Y" >>, 5) >>) >>) }

(***************************************************************************)
(* The run: main() and MeshCoreSyncApp.run                                 *)
(***************************************************************************)
VARIABLES
    pc,           \* position of the run
    args,         \* the parsed command line
    file,         \* the target file on disk
    file0,        \* the target file as it was when the run started
    backup,       \* the backup file on disk (NoFile: none)
    attempt,      \* loop variable of the retry loop in progress
    tries,        \* requests sent by the retry loop in progress
    sleeps,       \* the backoffs slept by the retry loop in progress
    net_error,    \* how the download ended, when it failed
    source,       \* the unpacked source tree
    version_tag,  \* self.version_tag
    enums,        \* extractor.enums
    mapped,       \* mapped_enums
    swift_enums,  \* analyzer.swift_enums
    analyses,     \* analyses
    content,      \* content of _apply_changes
    idx,          \* position of the loop of _apply_changes in analyses
    merge_error,  \* the exception the insertion raised ("none": none)
    exit_code,    \* the exit status (NoExit while running)
    events        \* the file operations and prompts so far, in order

vars ==
    << pc, args, file, file0, backup, attempt, tries, sleeps, net_error, source,
       version_tag, enums, mapped, swift_enums, analyses, content, idx,
       merge_error, exit_code, events >>

NoExit == 0 - 1

NoArgs ==
    [apply |-> FALSE, auto_approve |-> FALSE, force |-> FALSE,
     max_additions |-> DefaultMaxAdditions]

EmptyEnums == [g \in GroupSet |-> << >>]

Init ==
    /\ pc = "main"
    /\ args = NoArgs
    /\ file \in TargetFiles \cup {NoFile}
    /\ file0 = file
    /\ backup = NoFile
    /\ attempt = 0
    /\ tries = 0
    /\ sleeps = << >>
    /\ net_error = "none"
    /\ source = NoSource
    /\ version_tag = << >>
    /\ enums = << >>
    /\ mapped = EmptyEnums
    /\ swift_enums = EmptyEnums
    /\ analyses = << >>
    /\ content = NoFile
    /\ idx = 0
    /\ merge_error = "none"
    /\ exit_code = NoExit
    /\ events = << >>

\* return <code> from main() or run()
Exit(code) ==
    /\ pc' = "done"
    /\ exit_code' = code

Goto(label) ==
    /\ pc' = label
    /\ exit_code' = exit_code

\* The flag check without its second test.
FlagMisuseAutoOnly(a) == a.auto_approve /\ ~a.apply

\* Lines 1055-1061: --auto-approve or --force given without --apply.
FlagMisuse(a) == (a.auto_approve /\ ~a.apply) \/ (a.force /\ ~a.apply)

\* dry_run=args.apply
DryRunInverted(a) == a.apply

\* Line 1070: dry_run=not args.apply
DryRun(a) == ~a.apply

\* skip_backup dropped on the way to _apply_changes (its default, False).
SkipBackupNever(a) == FALSE

\* Line 1074 and line 867: skip_backup=args.force
SkipBackup(a) == a.force

\* The safety check against the default limit instead of --max-additions.
NeedsConfirmationDefaultLimit(total_additions, max_additions, auto_approve) ==
    total_additions > DefaultMaxAdditions /\ ~auto_approve

\* Line 736: the safety limit is exceeded and nothing approves by itself.
NeedsConfirmation(total_additions, max_additions, auto_approve) ==
    total_additions > max_additions /\ ~auto_approve

\* response in ('y', 'yes') after an input() prompt: the prompt and its answer.
Prompt(name, yes) == IF yes THEN name \o "_yes" ELSE name \o "_no"

\* main(): parse the flags, check the target file and the flag combinations.
Main ==
    /\ pc = "main"
    /\ \E a \in ArgSets, baseline \in BOOLEAN :
          /\ args' = a
          /\ IF file.kind = "absent" \/ FlagMisuse(a)
             THEN Exit(1)
             ELSE Goto(IF baseline THEN "archive" ELSE "meta")
    /\ UNCHANGED << file, file0, backup, attempt, tries, sleeps, net_error, source,
                    version_tag, enums, mapped, swift_enums, analyses, content,
                    idx, merge_error, events >>

\* One pass of a retry loop (lines 291-320 and 340-355) that did not succeed:
\* a retried exception backs off and goes round again unless the attempt is
\* the last; any other exception leaves the loop at once.  Both end the run
\* in the handler of lines 763-768.
AttemptFailed(outcome) ==
    /\ tries' = tries + 1
    /\ IF outcome = "retried" /\ ~IsLastAttempt(attempt)
       THEN /\ sleeps' = Append(sleeps, Backoff(attempt))
            /\ attempt' = attempt + 1
            /\ net_error' = net_error
            /\ Goto(pc)
       ELSE /\ net_error' = (IF outcome = "retried" THEN "exhausted" ELSE "other")
            /\ UNCHANGED << sleeps, attempt >>
            /\ Exit(1)

\* get_latest_release_info: one attempt.
FetchReleaseInfo ==
    /\ pc = "meta"
    /\ attempt < MAX_RETRIES
    /\ \E outcome \in {"ok", "retried", "other"} :
          IF outcome = "ok"
          THEN /\ Goto("archive")
               /\ attempt' = 0
               /\ tries' = 0
               /\ sleeps' = << >>
               /\ net_error' = net_error
          ELSE AttemptFailed(outcome)
    /\ UNCHANGED << args, file, file0, backup, source, version_tag, enums, mapped,
                    swift_enums, analyses, content, idx, merge_error, events >>

\* download_release: one attempt of the archive download and, when it
\* succeeds, the unpacking (lines 357-370) and line 714.
DownloadRelease ==
    /\ pc = "archive"
    /\ attempt < MAX_RETRIES
    /\ \E outcome \in {"ok", "retried", "other"} :
          IF outcome = "ok"
          THEN /\ \E tree \in SourceTrees :
                    /\ source' = tree
                    /\ version_tag' = ExtractVersionFromPath(tree.dir_name)
               /\ Goto("extract")
               /\ attempt' = 0
               /\ tries' = 0
               /\ sleeps' = << >>
               /\ net_error' = net_error
          ELSE /\ AttemptFailed(outcome)
               /\ UNCHANGED << source, version_tag >>
    /\ UNCHANGED << args, file, file0, backup, enums, mapped, swift_enums,
                    analyses, content, idx, merge_error, events >>

\* Step 2 of run: extract_all_enums and map_to_swift_enums.
Extract ==
    /\ pc = "extract"
    /\ enums' = ExtractAllEnums(source.classes)
    /\ mapped' = MapToSwiftEnums(enums')
    /\ Goto("analyze")
    /\ UNCHANGED << args, file, file0, backup, attempt, tries, sleeps, net_error,
                    source, version_tag, swift_enums, analyses, content, idx,
                    merge_error, events >>

\* Step 3 of run: SwiftAnalyzer(...) parses the target file, then the diff.
Analyze ==
    /\ pc = "analyze"
    /\ swift_enums' = ParseExistingEnums(file)
    /\ analyses' = AnalyzeChanges(mapped, swift_enums')
    /\ Goto("gate")
    /\ UNCHANGED << args, file, file0, backup, attempt, tries, sleeps, net_error,
                    source, version_tag, enums, mapped, content, idx, merge_error,
                    events >>

RECURSIVE SumAdditions(_)
\* sum(len(a.additions) for a in analyses)
SumAdditions(as) ==
    IF as = << >> THEN 0 ELSE Len(Head(as).additions) + SumAdditions(Tail(as))

RECURSIVE SumUpdates(_)
SumUpdates(as) ==
    IF as = << >> THEN 0 ELSE Len(Head(as).updates) + SumUpdates(Tail(as))

\* Step 3.5 of run: the safety limit on the number of additions.
SafetyGate ==
    /\ pc = "gate"
    /\ IF NeedsConfirmation(SumAdditions(analyses), args.max_additions,
                            args.auto_approve)
       THEN \E proceed \in BOOLEAN :
               /\ events' = Append(events, Prompt("gate", proceed))
               /\ IF proceed THEN Goto("summary") ELSE Exit(0)
       ELSE /\ events' = events
            /\ Goto("summary")
    /\ UNCHANGED << args, file, file0, backup, attempt, tries, sleeps, net_error,
                    source, version_tag, enums, mapped, swift_enums, analyses,
                    content, idx, merge_error >>

\* Step 4 of run: _show_change_summary, then the dry-run return.
ChangeSummary ==
    /\ pc = "summary"
    /\ IF SumAdditions(analyses) = 0 /\ SumUpdates(analyses) = 0
       THEN /\ events' = events
            /\ Exit(0)
       ELSE IF args.auto_approve
       THEN /\ events' = events
            /\ (IF DryRun(args) THEN Exit(0) ELSE Goto("apply"))
       ELSE \E proceed \in BOOLEAN :
               /\ events' = Append(events, Prompt("summary", proceed))
               /\ IF ~proceed THEN Exit(0)
                  ELSE IF DryRun(args) THEN Exit(0)
                  ELSE Goto("apply")
    /\ UNCHANGED << args, file, file0, backup, attempt, tries, sleeps, net_error,
                    source, version_tag, enums, mapped, swift_enums, analyses,
                    content, idx, merge_error >>

\* backup_path of _apply_changes is set exactly when a backup was made.
HasBackup == backup.kind # "absent"

\* Lines 865-875: the backup (unless skipped) and the one read of the file.
ApplyStart ==
    /\ pc = "apply"
    /\ IF ~SkipBackup(args)
       THEN /\ backup' = file
            /\ events' = Append(events, "backup")
       ELSE UNCHANGED << backup, events >>
    /\ content' = file
    /\ idx' = 1
    /\ Goto("merge")
    /\ UNCHANGED << args, file, file0, attempt, tries, sleeps, net_error, source,
                    version_tag, enums, mapped, swift_enums, analyses, merge_error >>

\* Lines 877-890, one pass of the loop over the analyses, with the handler
\* of lines 910-914 for an exception of the insertion.
MergeGroup ==
    /\ pc = "merge"
    /\ idx \in 1..Len(analyses)
    /\ LET analysis == analyses[idx]
           next == IF idx = Len(analyses) THEN "validate" ELSE "merge"
           new_cases_code == GenerateSwiftCases(analysis.additions, version_tag)
           inserted ==
               IF new_cases_code # << >>
               THEN InsertCasesIntoSwiftFile(content, swift_enums,
                                             analysis.target_enum, new_cases_code)
               ELSE Returned(content)
       IN  IF analysis.additions = << >>
           THEN /\ idx' = idx + 1
                /\ Goto(next)
                /\ UNCHANGED << content, file, events, merge_error >>
           ELSE \E approved \in BOOLEAN :
                   IF ~approved
                   THEN /\ idx' = idx + 1
                        /\ Goto(next)
                        /\ events' = Append(events, "enum_no")
                        /\ UNCHANGED << content, file, merge_error >>
                   ELSE IF inserted.ok
                   THEN /\ idx' = idx + 1
                        /\ Goto(next)
                        /\ content' = inserted.text
                        /\ events' = Append(events, "enum_yes")
                        /\ UNCHANGED << file, merge_error >>
                   ELSE /\ Exit(1)
                        /\ merge_error' = inserted.error
                        /\ UNCHANGED << content, idx >>
                        /\ IF HasBackup
                           THEN /\ file' = backup
                                /\ events' = events \o << "enum_yes", "restore" >>
                           ELSE /\ file' = file
                                /\ events' = Append(events, "enum_yes")
    /\ UNCHANGED << args, file0, backup, attempt, tries, sleeps, net_error, source,
                    version_tag, enums, mapped, swift_enums, analyses >>

\* What swiftc said of the merged text, as the run's log records it.
Verdict(outcome) ==
    IF outcome \in {"error", "invalid"} THEN "swiftc_failed" ELSE "swiftc_passed"

\* Lines 892-908: validation, then the one write of the merged text.
ValidateAndWrite ==
    /\ pc = "validate"
    /\ \E outcome \in ValidationOutcomes :
          LET checked == ValidateSwiftSyntax(content, outcome) IN
          IF ~checked.is_valid
          THEN /\ Exit(1)
               /\ IF HasBackup
                  THEN /\ file' = backup
                       /\ events' = events \o << Verdict(outcome), "restore" >>
                  ELSE /\ file' = file
                       /\ events' = Append(events, Verdict(outcome))
          ELSE /\ file' = FinalContent(checked.result, content)
               /\ events' = events \o << Verdict(outcome), "write" >>
               /\ Goto("version")
    /\ UNCHANGED << args, file0, backup, attempt, tries, sleeps, net_error, source,
                    version_tag, enums, mapped, swift_enums, analyses, content, idx,
                    merge_error >>

\* Step 6 of run: _update_version_comment, then return 0.
UpdateVersion ==
    /\ pc = "version"
    /\ file' = UpdateVersionComment(file, version_tag)
    /\ events' = Append(events, "marker")
    /\ Exit(0)
    /\ UNCHANGED << args, file0, backup, attempt, tries, sleeps, net_error, source,
                    version_tag, enums, mapped, swift_enums, analyses, content, idx,
                    merge_error >>

Next ==
    \/ Main
    \/ FetchReleaseInfo
    \/ DownloadRelease
    \/ Extract
    \/ Analyze
    \/ SafetyGate
    \/ ChangeSummary
    \/ ApplyStart
    \/ MergeGroup
    \/ ValidateAndWrite
    \/ UpdateVersion

Spec == Init /\ [][Next]_vars

\* A request ends (TIMEOUT, line 278) and a backoff ends, so a retry loop that
\* can take a step takes one.
FairSpec == Spec /\ WF_vars(FetchReleaseInfo) /\ WF_vars(DownloadRelease)

(***************************************************************************)
(* The diff and the merge on their own: analyze_changes and                *)
(* insert_cases_into_swift_file applied, as _apply_changes applies them,   *)
(* to any extracted case list of one group and any block of that group.    *)
(***************************************************************************)
DiffVersion == << "2", ".", "1" >>

DiffInit ==
    /\ pc = "diff_input"
    /\ \E grp \in GroupSet, block \in BlocksOf(SwiftLists), assignments \in PyLists :
          /\ file = SwiftText(NoMarker,
                              [g \in GroupSet |-> IF g = grp THEN block ELSE NoBlock])
          /\ mapped = [g \in GroupSet |->
                          IF g = grp THEN ExtractCases(assignments) ELSE << >>]
    /\ args = NoArgs
    /\ file0 = file
    /\ backup = NoFile
    /\ attempt = 0
    /\ tries = 0
    /\ sleeps = << >>
    /\ net_error = "none"
    /\ source = NoSource
    /\ version_tag = DiffVersion
    /\ enums = << >>
    /\ swift_enums = EmptyEnums
    /\ analyses = << >>
    /\ content = NoFile
    /\ idx = 0
    /\ merge_error = "none"
    /\ exit_code = NoExit
    /\ events = << >>

\* SwiftAnalyzer(...) and analyze_changes on the inputs.
DiffAnalyze ==
    /\ pc = "diff_input"
    /\ swift_enums' = ParseExistingEnums(file)
    /\ analyses' = AnalyzeChanges(mapped, swift_enums')
    /\ pc' = "diff_done"
    /\ UNCHANGED << args, file, file0, backup, attempt, tries, sleeps, net_error,
                    source, version_tag, enums, mapped, content, idx, merge_error,
                    exit_code, events >>

\* Lines 886-889 for the group that has additions: generate and insert.
DiffMerge ==
    /\ pc = "diff_done"
    /\ \E i \in 1..Len(analyses) :
          /\ analyses[i].additions # << >>
          /\ LET inserted ==
                    InsertCasesIntoSwiftFile(
                        file, swift_enums, analyses[i].target_enum,
                        GenerateSwiftCases(analyses[i].additions, version_tag))
             IN  /\ content' = inserted.text
                 /\ merge_error' = inserted.error
                 /\ idx' = i
    /\ pc' = "diff_merged"
    /\ UNCHANGED << args, file, file0, backup, attempt, tries, sleeps, net_error,
                    source, version_tag, enums, mapped, swift_enums, analyses,
                    exit_code, events >>

DiffNext ==
    \/ DiffAnalyze
    \/ DiffMerge

DiffSpec == DiffInit /\ [][DiffNext]_vars

(***************************************************************************)
(* Properties                                                              *)
(***************************************************************************)
Occurrences(x, s) == Cardinality({i \in 1..Len(s) : s[i] = x})

\* A group's semantic value range: response codes below the boundary, push
\* codes from it on, command codes unrestricted.
InRange(g, value) ==
    IF g = "ResponseCode" THEN value < PushBoundary
    ELSE IF g = "PushCode" THEN value >= PushBoundary
    ELSE TRUE

\* The extracted cases of group g that its diff examines.
Examined(g) ==
    LET inRange(c) == InRange(g, c.value) IN SelectSeq(mapped[g], inRange)

\* An existing case has the extracted case's value and, once both names are
\* lower-cased and stripped of underscores, its name.
IsCovered(c, existing) ==
    \E j \in 1..Len(existing) :
        /\ existing[j].value = c.value
        /\ RemoveChar(Lower(existing[j].name), "_") = Lower(c.name)

\* An existing case has the extracted case's value.
ValueTaken(c, existing) == \E j \in 1..Len(existing) : existing[j].value = c.value

Diffed == analyses # << >>

\* C1: the diff of every group puts each examined extracted case into exactly
\* one of covered (in neither list), duplicates, additions: every occurrence of
\* a case that is not covered is in exactly one of the two lists, a covered case
\* is in neither, and the lists hold nothing but examined cases.
C1_DiffPartitions ==
    Diffed =>
        \A i \in 1..Len(Groups) :
            LET extracted == Examined(Groups[i])
                existing == swift_enums[Groups[i]]
                a == analyses[i]
            IN  /\ \A k \in 1..Len(extracted) :
                       LET c == extracted[k] IN
                       /\ Occurrences(c, a.additions) + Occurrences(c, a.duplicates)
                            = (IF IsCovered(c, existing) THEN 0
                               ELSE Occurrences(c, extracted))
                       /\ Occurrences(c, a.additions) = 0
                            \/ Occurrences(c, a.duplicates) = 0
                /\ SeqToSet(a.additions) \cup SeqToSet(a.duplicates)
                       \subseteq SeqToSet(extracted)

\* C1 witness: a diff with an addition and a duplicate in the same group.
C1_Witness ==
    /\ pc = "diff_done"
    /\ \E i \in 1..Len(Groups) :
          /\ Len(analyses[i].additions) = 1
          /\ Len(analyses[i].duplicates) = 1

\* A case of the target file's text: a line with this name and value.
HasLine(text, g, name, value) ==
    \E j \in 1..Len(text.blocks[g].lines) :
        /\ text.blocks[g].lines[j].name = name
        /\ ParseSwiftValue(text.blocks[g].lines[j].value) = value

\* The extracted case collides: its value is an existing case's, under
\* another name.
Collides(c, existing) == ValueTaken(c, existing) /\ ~IsCovered(c, existing)

\* Every examined case of every group is covered or collides, and one collides.
OnlyDuplicates ==
    /\ \A g \in GroupSet : \A k \in 1..Len(Examined(g)) :
          ValueTaken(Examined(g)[k], swift_enums[g])
    /\ \E g \in GroupSet : \E k \in 1..Len(Examined(g)) :
          Collides(Examined(g)[k], swift_enums[g])

LineA1 == CaseLine(<< "A" >>, << "1" >>, NoComment, FALSE)

LineB2 == CaseLine(<< "B" >>, << "2" >>, NoComment, FALSE)

\* C3: with a block {A=1, B=2} and the extraction {a=1, c=3} for its group, the
\* diff has c=3 as its one addition and no duplicate, and the merge yields the
\* block of the three cases with values 1, 2, 3 in this order, a comma after the
\* first two lines and none after the last.
C3_RoundTrip ==
    \A i \in 1..Len(Groups) :
        (/\ pc = "diff_merged"
         /\ file.blocks[Groups[i]] = Block("regex", << LineA1, LineB2 >>)
         /\ mapped[Groups[i]] = << EnumCase(<< "A" >>, 1), EnumCase(<< "C" >>, 3) >>)
        =>
        /\ analyses[i].additions = << EnumCase(<< "C" >>, 3) >>
        /\ analyses[i].duplicates = << >>
        /\ merge_error = "none"
        /\ LET merged == content.blocks[Groups[i]].lines IN
           /\ Len(merged) = 3
           /\ \A j \in 1..3 : ParseSwiftValue(merged[j].value) = j
           /\ merged[1].name = << "A" >> /\ merged[2].name = << "B" >>
           /\ merged[3].name = << "c" >>
           /\ merged[1].comma /\ merged[2].comma /\ ~merged[3].comma

\* C4: when a run has ended, every case (name and value) of every block of the
\* target file as it was before the run is still in that block.
C4_AdditiveOnly ==
    pc = "done" =>
        \A g \in GroupSet : \A j \in 1..Len(file0.blocks[g].lines) :
            HasLine(file, g, file0.blocks[g].lines[j].name,
                    ParseSwiftValue(file0.blocks[g].lines[j].value))

Logged(e) == \E i \in 1..Len(events) : events[i] = e

\* The operations on the target file and its backup.
FileOps == {"backup", "write", "marker", "restore"}

\* The number of additions of all groups.
TotalAdditions ==
    Len(analyses[1].additions) + Len(analyses[2].additions)
        + Len(analyses[3].additions)

\* The diff is done and its additions exceed --max-additions, auto-approve off.
GateRequired ==
    /\ Diffed
    /\ TotalAdditions > args.max_additions
    /\ ~args.auto_approve

\* C5: when the additions of all groups exceed the max-additions threshold and
\* auto-approve is off, the run asks for confirmation before anything else it
\* logs (no backup, merge or write precedes the question), and a refusal ends
\* the run with exit status 0, the target file as it was and no backup.
C5_SafetyThreshold ==
    GateRequired =>
        /\ pc = "gate" =>
              /\ events = << >>
              /\ file = file0
              /\ backup = NoFile
              /\ content = NoFile
        /\ pc # "gate" =>
              /\ events # << >>
              /\ events[1] \in {"gate_yes", "gate_no"}
        /\ Logged("gate_no") =>
              /\ events = << "gate_no" >>
              /\ pc = "done"
              /\ exit_code = 0
              /\ file = file0
              /\ backup = NoFile
              /\ content = NoFile

\* C5 witness: two or more additions against a threshold of 1, refused.
C5_Witness ==
    /\ pc = "done"
    /\ args.max_additions = 1
    /\ args.apply
    /\ events = << "gate_no" >>

\* C6: once the validation of the merged text has failed, the run has ended
\* with exit status 1, the merged text was not written (no write of any kind is
\* logged), the backup, when one was made, has been restored as the last
\* operation, and the target file is as it was before the run.
C6_ValidationFailure ==
    Logged("swiftc_failed") =>
        /\ pc = "done"
        /\ exit_code = 1
        /\ ~Logged("write")
        /\ ~Logged("marker")
        /\ file = file0
        /\ HasBackup => events[Len(events)] = "restore" /\ backup = file0
        /\ ~HasBackup => ~Logged("restore")

\* C6 witness: a merged text that differs from the file failed validation in a
\* run that had made a backup.
C6_Witness ==
    /\ Logged("swiftc_failed")
    /\ Logged("enum_yes")
    /\ content # file0
    /\ HasBackup

\* C7: unless backup is skipped, every write to the target file (of the merged
\* text, of the version marker) comes after the creation of a backup, and the
\* backup holds the file's original content; when backup is skipped there is no
\* backup and no restore.
C7_BackupBeforeWrite ==
    /\ \A i \in 1..Len(events) :
          (events[i] \in {"write", "marker"} /\ ~args.force)
              => \E j \in 1..(i - 1) : events[j] = "backup"
    /\ Logged("backup") => backup = file0 /\ ~args.force
    /\ ~Logged("backup") => backup = NoFile
    /\ args.force => ~Logged("backup") /\ ~Logged("restore") /\ backup = NoFile

\* C7 witness: a run with backup wrote the merged text and the marker.
C7_Witness ==
    /\ pc = "done"
    /\ ~args.force
    /\ Logged("write")
    /\ Logged("marker")
    /\ Logged("enum_yes")

\* C8: in a run without the apply flag the target file is never written, no
\* backup is made and no version marker is added, whatever was extracted and
\* whatever the operator answered.
C8_DryRunWritesNothing ==
    (pc # "main" /\ ~args.apply) =>
        /\ file = file0
        /\ backup = NoFile
        /\ \A i \in 1..Len(events) : events[i] \notin FileOps

\* C8 witness: a run without the apply flag ended after the operator approved
\* the summary of a diff that has additions.
C8_Witness ==
    /\ pc = "done"
    /\ ~args.apply
    /\ Logged("summary_yes")
    /\ TotalAdditions > 0

\* The run met a fatal error: the target file is missing, a flag needs --apply,
\* the download failed, the merge raised, or the merged text was rejected.
Fatal ==
    \/ file0.kind = "absent"
    \/ args.auto_approve /\ ~args.apply
    \/ args.force /\ ~args.apply
    \/ net_error # "none"
    \/ merge_error # "none"
    \/ Logged("swiftc_failed")

InRetryLoop == pc \in {"meta", "archive"}

\* What holds of a retry loop in every state.
RetryInvariant ==
    /\ tries <= MAX_RETRIES
    /\ attempt <= MAX_RETRIES - 1
    /\ Len(sleeps) = attempt
    /\ \A k \in 1..Len(sleeps) : sleeps[k] = 2 ^ (k - 1)
    /\ InRetryLoop => tries = attempt
    /\ net_error = "exhausted" =>
          /\ pc = "done"
          /\ exit_code = 1
          /\ tries = MAX_RETRIES
          /\ Len(sleeps) = MAX_RETRIES - 1
    /\ net_error = "other" => pc = "done" /\ exit_code = 1

\* What holds of every step of a retry loop: going round again is one more
\* request, one backoff of 2^attempt and the next attempt; leaving the loop
\* sleeps no more.
RetryStep ==
    InRetryLoop =>
        /\ pc' = pc =>
              /\ attempt' = attempt + 1
              /\ tries' = tries + 1
              /\ sleeps' = Append(sleeps, 2 ^ attempt)
        /\ pc' # pc => sleeps' \in {sleeps, << >>}
        /\ pc' = "done" => exit_code' = 1 /\ sleeps' = sleeps

\* C10: a network operation sends at most MAX_RETRIES requests; a failed
\* attempt k that is not the last is followed by a backoff of 2^k and attempt
\* k+1; the failure of the last attempt ends the run with exit status 1 after
\* MAX_RETRIES requests and MAX_RETRIES - 1 backoffs; and a retry loop, once
\* entered, is left.
C10_Retries ==
    /\ []RetryInvariant
    /\ [][RetryStep]_vars
    /\ InRetryLoop ~> ~InRetryLoop

\* C10 witness: three failed attempts, backoffs of 1 and 2 seconds.
C10_Witness ==
    /\ net_error = "exhausted"
    /\ tries = 3
    /\ sleeps = << 1, 2 >>

(***************************************************************************)
(* The extractor on classes with arbitrary case names                      *)
(***************************************************************************)
MaxNameLen == 3

\* Characters of an upstream case name: two letters and the separator.
NameChars == {"A", "B", "_"}

\* SCREAMING_SNAKE_CASE names of up to MaxNameLen characters: tokens of
\* letters, one separator between two tokens.
CaseNames ==
    { n \in SeqsUpTo(NameChars, MaxNameLen) :
        /\ n # << >>
        /\ n[1] # "_"
        /\ n[Len(n)] # "_"
        /\ \A i \in 1..(Len(n) - 1) : ~(n[i] = "_" /\ n[i + 1] = "_") }

\* A packet-type class of two cases with any names.
NormInit ==
    /\ pc = "norm_input"
    /\ \E n1 \in CaseNames, n2 \in CaseNames :
          source = SourceTree(<< "m", "-", "2", ".", "1" >>,
                      << ClassDef(Str_PacketType, << "IntEnum" >>,
                                  << "p", ".", "p", "y" >>,
                                  << Assignment(n1, 1), Assignment(n2, 2) >>) >>)
    /\ args = NoArgs
    /\ file = NoFile
    /\ file0 = NoFile
    /\ backup = NoFile
    /\ attempt = 0
    /\ tries = 0
    /\ sleeps = << >>
    /\ net_error = "none"
    /\ version_tag = << >>
    /\ enums = << >>
    /\ mapped = EmptyEnums
    /\ swift_enums = EmptyEnums
    /\ analyses = << >>
    /\ content = NoFile
    /\ idx = 0
    /\ merge_error = "none"
    /\ exit_code = NoExit
    /\ events = << >>

\* extract_all_enums on the class.
NormExtract ==
    /\ pc = "norm_input"
    /\ enums' = ExtractAllEnums(source.classes)
    /\ pc' = "norm_done"
    /\ UNCHANGED << args, file, file0, backup, attempt, tries, sleeps, net_error,
                    source, version_tag, mapped, swift_enums, analyses, content,
                    idx, merge_error, exit_code, events >>

NormNext == NormExtract

NormSpec == NormInit /\ [][NormNext]_vars

\* C11: normalizing the normalized name of an extracted case gives the same
\* name again, for every upstream name, and the name an extracted case carries
\* is the one normalization gives for its upstream name.
C11_NormalizeIdempotent ==
    pc = "norm_done" =>
        \A i \in 1..Len(enums) : \A k \in 1..Len(enums[i].cases) :
            LET c == enums[i].cases[k] IN
            /\ c.name = NormalizeName(c.original_name)
            /\ NormalizeName(c.name) = c.name

(***************************************************************************)
(* The classifier on arbitrary definitions                                 *)
(***************************************************************************)
MaxDefCases == 2

Str_Cmd == << "C", "m", "d" >>
Str_CmdResp == << "C", "m", "d", "R", "e", "s", "p" >>
Str_Resp == << "R", "e", "s", "p" >>
Str_Packet == << "P", "a", "c", "k", "e", "t" >>
Str_Type == << "T", "y", "p", "e" >>
Str_Zed == << "Z", "e", "d" >>

\* Names of definitions: one per rule of the classifier, and one that has a
\* command token and a response token.
DefNames == {Str_Cmd, Str_CmdResp, Str_Resp, Str_Packet, Str_Type, Str_Zed}

\* Cases of a definition: two below the boundary, one above.
DefCases == {EnumCase(<< "A" >>, 1), EnumCase(<< "B" >>, 2), EnumCase(<< "P" >>, 129)}

\* An EnumDefinition: its name and its cases (a case may occur twice).
EnumDefinitions ==
    {[name |-> n, cases |-> cs] : n \in DefNames, cs \in SeqsUpTo(DefCases, MaxDefCases)}

\* self.enums: no definition, one, or two of different names (a dict).
EnumDicts ==
    {<< >>} \cup {<< d >> : d \in EnumDefinitions}
        \cup {<< p[1], p[2] >> :
                 p \in {q \in EnumDefinitions \X EnumDefinitions : q[1].name # q[2].name}}

ClassifyInit ==
    /\ pc = "classify_input"
    /\ enums \in EnumDicts
    /\ args = NoArgs
    /\ file = NoFile
    /\ file0 = NoFile
    /\ backup = NoFile
    /\ attempt = 0
    /\ tries = 0
    /\ sleeps = << >>
    /\ net_error = "none"
    /\ source = NoSource
    /\ version_tag = << >>
    /\ mapped = EmptyEnums
    /\ swift_enums = EmptyEnums
    /\ analyses = << >>
    /\ content = NoFile
    /\ idx = 0
    /\ merge_error = "none"
    /\ exit_code = NoExit
    /\ events = << >>

\* map_to_swift_enums, a first and a second time.
Classify ==
    /\ pc \in {"classify_input", "classified"}
    /\ mapped' = MapToSwiftEnums(enums)
    /\ pc' = (IF pc = "classify_input" THEN "classified" ELSE "classified_again")
    /\ UNCHANGED << args, file, file0, backup, attempt, tries, sleeps, net_error,
                    source, version_tag, enums, swift_enums, analyses, content,
                    idx, merge_error, exit_code, events >>

ClassifyNext == Classify

ClassifySpec == ClassifyInit /\ [][ClassifyNext]_vars

Classified == pc \in {"classified", "classified_again"}

\* The number of cases of a list with this name and value.
KeyCount(cases, name, value) ==
    Cardinality({k \in 1..Len(cases) : cases[k].name = name /\ cases[k].value = value})

\* The cases of all definitions.
AllDefCases == UNION {SeqToSet(enums[i].cases) : i \in 1..Len(enums)}

\* The definitions that carry the case.
Carriers(c) ==
    {i \in 1..Len(enums) : KeyCount(enums[i].cases, c.name, c.value) > 0}

\* C12: after the classification no group's list holds two cases of the same
\* (normalized name, value), whichever definitions carried the key and however
\* often.
C12_KeyAtMostOnce ==
    Classified =>
        \A g \in GroupSet : \A c \in AllDefCases :
            KeyCount(mapped[g], c.name, c.value) <= 1

\* C12 witness: a key carried by two definitions, and twice by one of them.
C12_Witness ==
    /\ Classified
    /\ \E c \in AllDefCases :
          /\ Cardinality(Carriers(c)) = 2
          /\ \E i \in Carriers(c) : KeyCount(enums[i].cases, c.name, c.value) = 2
          /\ \E g \in GroupSet : KeyCount(mapped[g], c.name, c.value) = 1

\* The groups whose list holds the case.
GroupsHolding(c) == {g \in GroupSet : KeyCount(mapped[g], c.name, c.value) > 0}

\* The first definition, in the order of the dict, that carries the case.
FirstCarrier(c) == CHOOSE i \in Carriers(c) : \A j \in Carriers(c) : i <= j

\* C13 as stated: a case shared by two definitions is in the list of exactly
\* one group after the classification, and there once, whatever the routing of
\* the two definitions.
C13_SharedCaseInOneGroup ==
    Classified =>
        \A c \in AllDefCases :
            Cardinality(Carriers(c)) = 2 =>
                /\ Cardinality(GroupsHolding(c)) = 1
                /\ \A g \in GroupSet : KeyCount(mapped[g], c.name, c.value) <= 1

\* A case shared by two definitions is, once, in the list of every group the
\* first of them is routed to, and in no other list.
SharedCaseOncePerGroup ==
    Classified =>
        \A c \in AllDefCases :
            Cardinality(Carriers(c)) = 2 =>
                \A g \in GroupSet :
                    KeyCount(mapped[g], c.name, c.value)
                        = (IF g \in SeqToSet(DetectTargetEnumsDynamic(enums[FirstCarrier(c)]))
                           THEN 1 ELSE 0)

\* C13 amended: a case shared by two definitions is once in the list of each
\* group the first of the two definitions is routed to (one group, or both
\* response and push) and in no other list, and a second classification of the
\* same definitions gives the same lists.
C13_SharedCaseOncePerRoutedGroup ==
    /\ []SharedCaseOncePerGroup
    /\ [][pc = "classified" => mapped' = mapped]_vars

\* C13 witness: after the second classification a shared case is in the
\* response list and in the push list.
C13_Witness ==
    /\ pc = "classified_again"
    /\ \E c \in AllDefCases :
          /\ Cardinality(Carriers(c)) = 2
          /\ GroupsHolding(c) = {"ResponseCode", "PushCode"}

\* The name, lower-cased, has one of the tokens.
HasToken(d, tokens) == \E t \in tokens : Contains(Lower(d.name), t)

CaseValues(d) == {d.cases[k].value : k \in 1..Len(d.cases)}

\* The number of the first rule of the fixed order that matches a definition:
\* 1 command/request token, 2 response/event token, 3 packet token, 4 no rule
\* on the name.
FirstRule(d) ==
    IF HasToken(d, {Str_req, Str_cmd, Str_command, Str_binary}) THEN 1
    ELSE IF HasToken(d, {Str_resp, Str_response, Str_event}) THEN 2
    ELSE IF HasToken(d, {Str_packet}) THEN 3
    ELSE 4

\* The groups of a rule, as a set.
RuleGroups(rule, d) ==
    CASE rule = 1 -> {"CommandCode"}
      [] rule = 2 -> IF \E v \in CaseValues(d) : v >= 128
                     THEN {"PushCode"} ELSE {"ResponseCode"}
      [] rule = 3 -> {"ResponseCode", "PushCode"}
      [] rule = 4 -> {"ResponseCode" : v \in {w \in CaseValues(d) : w < 128}}
                       \cup {"PushCode" : v \in {w \in CaseValues(d) : w >= 128}}

MergeNothing ==
    /\ pc = "diff_done"
    /\ \E i \in 1..Len(analyses) :
          /\ file.blocks[analyses[i].target_enum].form # "none"
          /\ LET inserted ==
                    InsertCasesIntoSwiftFile(
                        file, swift_enums, analyses[i].target_enum,
                        GenerateSwiftCases(<< >>, version_tag))
             IN  /\ content' = inserted.text
                 /\ merge_error' = inserted.error
                 /\ idx' = i
    /\ pc' = "merged_nothing"
    /\ UNCHANGED << args, file, file0, backup, attempt, tries, sleeps, net_error,
                    source, version_tag, enums, mapped, swift_enums, analyses,
                    exit_code, events >>

NoChangeNext ==
    \/ DiffAnalyze
    \/ MergeNothing

NoChangeSpec == DiffInit /\ [][NoChangeNext]_vars

\* The cases (name, value) of a group's block of a text.
BlockCases(text, g) ==
    {<< text.blocks[g].lines[j].name, ParseSwiftValue(text.blocks[g].lines[j].value) >> :
        j \in 1..Len(text.blocks[g].lines)}

\* C14: the merge of no additions into a block that is in the file ends without
\* an error and gives a text whose block has the cases (name, value) the block
\* had, and whose other blocks are as they were.
C14_MergeNothingKeepsCases ==
    pc = "merged_nothing" =>
        /\ merge_error = "none"
        /\ \A g \in GroupSet : BlockCases(content, g) = BlockCases(file, g)

\* The answers of the operator to the prompts of a run.
PromptEvents ==
    {"gate_yes", "gate_no", "summary_yes", "summary_no", "enum_yes", "enum_no"}

\* C15: a run with auto-approve never asks the operator anything: no prompt at
\* the safety gate, at the change summary, or for a group in the apply step.
C15_AutoApproveNeverPrompts ==
    args.auto_approve =>
        \A i \in 1..Len(events) : events[i] \notin PromptEvents

\* A text without its marker line.
Unmarked(text) == [text EXCEPT !.marker = NoMarker]

\* C16: the version marker is written only as the step after the write of a
\* text that passed validation, in an apply run that found changes, met no
\* refusal at the gate or the summary and no failure of the merge or the
\* validation, and under it the file then holds the merged text (or its
\* formatted rendering); the file carries a marker it did not have only when
\* the marker was written.
C16_MarkerOnlyAfterApply ==
    /\ \A i \in 1..Len(events) :
          events[i] = "marker" =>
              /\ i > 2
              /\ events[i - 1] = "write"
              /\ events[i - 2] = "swiftc_passed"
    /\ Logged("marker") =>
          /\ args.apply
          /\ TotalAdditions > 0
          /\ merge_error = "none"
          /\ ~Logged("swiftc_failed")
          /\ ~Logged("gate_no")
          /\ ~Logged("summary_no")
          /\ Unmarked(file) \in {Unmarked(content), Unmarked(SwiftFormat(content))}
    /\ (file.marker # NoMarker /\ file.marker # file0.marker) => Logged("marker")

(***************************************************************************)
(* The classifier's output through the diff                                *)
(***************************************************************************)
\* A target file with the three blocks: go = 1; A = 1; pA = 0x81.
RoutedFile ==
    SwiftText(NoMarker,
        [g \in GroupSet |->
            IF g = "ResponseCode"
            THEN Block("regex", << CaseLine(<< "A" >>, << "1" >>, NoComment, FALSE) >>)
            ELSE IF g = "PushCode"
            THEN Block("regex",
                       << CaseLine(<< "p", "A" >>, << "0", "x", "8", "1" >>, NoComment, FALSE) >>)
            ELSE Block("regex",
                       << CaseLine(<< "g", "o" >>, << "1" >>, NoComment, FALSE) >>)])

RoutedInit ==
    /\ pc = "classify_input"
    /\ enums \in EnumDicts
    /\ file = RoutedFile
    /\ file0 = RoutedFile
    /\ args = NoArgs
    /\ backup = NoFile
    /\ attempt = 0
    /\ tries = 0
    /\ sleeps = << >>
    /\ net_error = "none"
    /\ source = NoSource
    /\ version_tag = DiffVersion
    /\ mapped = EmptyEnums
    /\ swift_enums = EmptyEnums
    /\ analyses = << >>
    /\ content = NoFile
    /\ idx = 0
    /\ merge_error = "none"
    /\ exit_code = NoExit
    /\ events = << >>

\* Step 3 of run on the classifier's output.
RoutedAnalyze ==
    /\ pc = "classified"
    /\ swift_enums' = ParseExistingEnums(file)
    /\ analyses' = AnalyzeChanges(mapped, swift_enums')
    /\ pc' = "diff_done"
    /\ UNCHANGED << args, file, file0, backup, attempt, tries, sleeps, net_error,
                    source, version_tag, enums, mapped, content, idx, merge_error,
                    exit_code, events >>

RoutedNext ==
    \/ Classify
    \/ RoutedAnalyze

RoutedSpec == RoutedInit /\ [][RoutedNext]_vars

\* The cases of a group's diff result: additions and duplicates.
Reported(i) == SeqToSet(analyses[i].additions) \cup SeqToSet(analyses[i].duplicates)

\* The diff of group i (1 commands, 2 response, 3 push) has examined the case:
\* it reports it, or an existing case of the group covers it.
Handled(c, i) == c \in Reported(i) \/ IsCovered(c, swift_enums[Groups[i]])

\* C18: in a diff result the additions and duplicates of the response group
\* are below 0x80 and those of the push group at or above it, while the
\* commands group handles every case of its list; a case in the response list
\* and in the push list is handled by the diff of its value's side, is not
\* reported by the other, and so is an addition of at most one group.
C18_ValueRangeSplit ==
    Diffed =>
        /\ \A c \in Reported(2) : c.value < 128
        /\ \A c \in Reported(3) : c.value >= 128
        /\ \A c \in SeqToSet(mapped["CommandCode"]) : Handled(c, 1)
        /\ \A c \in SeqToSet(mapped["ResponseCode"]) \cap SeqToSet(mapped["PushCode"]) :
              /\ c.value < 128 => Handled(c, 2) /\ c \notin Reported(3)
              /\ c.value >= 128 => Handled(c, 3) /\ c \notin Reported(2)
              /\ ~(c \in SeqToSet(analyses[2].additions)
                     /\ c \in SeqToSet(analyses[3].additions))

\* C18 witness: cases in the response list and in the push list, one an
\* addition of the response group and one a duplicate of the push group.
C18_Witness ==
    /\ pc = "diff_done"
    /\ \E c \in SeqToSet(mapped["ResponseCode"]) \cap SeqToSet(mapped["PushCode"]) :
          c \in SeqToSet(analyses[2].additions)
    /\ \E c \in SeqToSet(mapped["ResponseCode"]) \cap SeqToSet(mapped["PushCode"]) :
          c \in SeqToSet(analyses[3].duplicates)

\* The target file of the run has no block for the group.
MissingBlock(g) == file0.kind = "swift" /\ file0.blocks[g].form = "none"

\* The answers to the per-group prompts so far, in order.
GroupAnswers ==
    LET isAnswer(e) == e \in {"enum_yes", "enum_no"} IN SelectSeq(events, isAnswer)

\* The operator has approved the additions of group i: the prompts are for
\* the groups with additions, in the order of the groups.
Approved(i) ==
    LET n == Cardinality({j \in 1..i : analyses[j].additions # << >>}) IN
    /\ analyses[i].additions # << >>
    /\ Len(GroupAnswers) >= n
    /\ GroupAnswers[n] = "enum_yes"

\* C19: when the target file has no block for a group, the parse gives the
\* group no case and the run goes on to the diff unless the download fails, the
\* diff makes every examined case of the group an addition, and once the
\* operator has approved these additions the run has ended with a merge error
\* and exit status 1 and the target file is as it was before the run.
C19_MissingBlock ==
    \A i \in 1..Len(Groups) :
        MissingBlock(Groups[i]) =>
            /\ (pc = "done" /\ ~Diffed) =>
                  \/ net_error # "none"
                  \/ (args.auto_approve \/ args.force) /\ ~args.apply
            /\ Diffed =>
                  /\ swift_enums[Groups[i]] = << >>
                  /\ analyses[i].additions = Examined(Groups[i])
                  /\ analyses[i].duplicates = << >>
            /\ (Diffed /\ Approved(i)) =>
                  /\ pc = "done"
                  /\ merge_error # "none"
                  /\ exit_code = 1
                  /\ file = file0
                  /\ ~Logged("write")
                  /\ ~Logged("marker")

\* C19 witness: a run with a backup ended after the operator approved the
\* additions of the response group, whose block the file lacks.
C19_Witness ==
    /\ pc = "done"
    /\ MissingBlock("ResponseCode")
    /\ Diffed
    /\ Approved(2)
    /\ merge_error = "RuntimeError"
    /\ Logged("restore")

\* C20: once the run has written the target file, which it does when the
\* validation of the merged text has passed, the file holds the merged text or
\* its formatted rendering: right after the write as it is, and after the
\* marker step under the marker line.
C20_PersistedIsMerged ==
    Logged("write") =>
        /\ Logged("swiftc_passed")
        /\ pc = "version" => file \in {content, SwiftFormat(content)}
        /\ Unmarked(file) \in {Unmarked(content), Unmarked(SwiftFormat(content))}

\* ---------------------------------------------------------------------------
\* The extractor over varied source trees
\* ---------------------------------------------------------------------------

Str_PacketTypeBase ==
    << "P", "a", "c", "k", "e", "t", "T", "y", "p", "e", "B", "a", "s", "e" >>

\* Class names: the packet-type class, a sub-enum type, a class whose name
\* holds a skip word, and another enum.
TreeClassNames ==
    {Str_PacketType, Str_BinaryReqType, Str_PacketTypeBase, Str_EventType}

\* Base lists: IntEnum, Enum (as a name or as the attribute of enum.Enum), and
\* a class that is no enum.
TreeBases == {<< "IntEnum" >>, << "Enum" >>, << "object" >>}

\* Files of the tree, relative to the source directory: two plain files and
\* one under the command sub-directory.
TreePaths ==
    {<< "p", ".", "p", "y" >>, << "q", ".", "p", "y" >>,
     << "C" >> \o Tail(Str_commands) \o << "/", "p", ".", "p", "y" >>}

\* Class bodies: none, one or two integer assignments, with or without an
\* assignment of another kind.
TreeBodies ==
    {<< >>,
     << Assignment(<< "A" >>, 1) >>,
     << Assignment(<< "A" >>, 1), Assignment(<< "B" >>, 2) >>,
     << Assignment(<< "A" >>, 1), OtherAssignment(<< "S" >>) >>,
     << Assignment(<< "C" >>, 3), OtherAssignment(<< "S" >>),
        Assignment(<< "Y" >>, 5) >>}

TreeClasses ==
    {ClassDef(n, b, p, a) :
        n \in TreeClassNames, b \in TreeBases, p \in TreePaths, a \in TreeBodies}

\* The classes of a tree in the order the walk meets them: one class or two.
TreeWalks ==
    {<< c >> : c \in TreeClasses}
        \cup {<< c1, c2 >> : c1 \in TreeClasses, c2 \in TreeClasses}

TreeInit ==
    /\ pc = "norm_input"
    /\ \E classes \in TreeWalks :
          source = SourceTree(<< "m", "-", "2", ".", "1" >>, classes)
    /\ args = NoArgs
    /\ file = NoFile
    /\ file0 = NoFile
    /\ backup = NoFile
    /\ attempt = 0
    /\ tries = 0
    /\ sleeps = << >>
    /\ net_error = "none"
    /\ version_tag = << >>
    /\ enums = << >>
    /\ mapped = EmptyEnums
    /\ swift_enums = EmptyEnums
    /\ analyses = << >>
    /\ content = NoFile
    /\ idx = 0
    /\ merge_error = "none"
    /\ exit_code = NoExit
    /\ events = << >>

TreeSpec == TreeInit /\ [][NormNext]_vars

\* The integer-valued assignments of a class body.
IntAssignments(class_node) ==
    SelectSeq(class_node.assignments, LAMBDA a : a.is_int)

\* The class is the packet-type class, an enum, with at least two
\* integer-valued cases, outside the command sub-directory.
IsPacketTypeEnum(class_node) ==
    /\ class_node.name = Str_PacketType
    /\ \E i \in 1..Len(class_node.bases) : class_node.bases[i] \in {"IntEnum", "Enum"}
    /\ Len(IntAssignments(class_node)) >= 2
    /\ ~Contains(Lower(class_node.path), Str_commands)

\* The definition is what the k-th class of the walk defines.
DefinedBy(d, k) ==
    LET c == source.classes[k] IN
    /\ d.name = c.name
    /\ d.source_file = c.path
    /\ Len(d.cases) = Len(IntAssignments(c))
    /\ \A j \in 1..Len(d.cases) :
          /\ d.cases[j].original_name = IntAssignments(c)[j].original_name
          /\ d.cases[j].value = IntAssignments(c)[j].value

\* C21: every definition in the extractor's output is the single packet-type
\* class, has at least two integer-valued cases, does not come from a path
\* containing the command sub-directory name, and is none of the excluded
\* handler/base/command classes or the two sub-enum types; when several files
\* define it, the output holds only the last one processed.
C21_OnlyLastPacketType ==
    pc = "norm_done" =>
        /\ Len(enums) <= 1
        /\ \A i \in 1..Len(enums) :
              /\ enums[i].name = Str_PacketType
              /\ Len(enums[i].cases) >= 2
              /\ ~Contains(Lower(enums[i].source_file), Str_commands)
              /\ enums[i].name \notin {Str_BinaryReqType, Str_ControlType}
              /\ ~ \E w \in {Str_command, Str_handler, Str_base} :
                      Contains(Lower(enums[i].name), w)
              /\ \E k \in 1..Len(source.classes) :
                    /\ IsPacketTypeEnum(source.classes[k])
                    /\ DefinedBy(enums[i], k)
                    /\ \A j \in (k + 1)..Len(source.classes) :
                          ~IsPacketTypeEnum(source.classes[j])

\* Two files define the packet-type class with different cases, and the
\* output holds the second.
C21_Witness ==
    /\ pc = "norm_done"
    /\ Len(source.classes) = 2
    /\ IsPacketTypeEnum(source.classes[1])
    /\ IsPacketTypeEnum(source.classes[2])
    /\ source.classes[1].path # source.classes[2].path
    /\ source.classes[1].assignments # source.classes[2].assignments
    /\ Len(enums) = 1
    /\ DefinedBy(enums[1], 2)
    /\ ~DefinedBy(enums[1], 1)

\* The groups whose diff has additions.
GroupsWithAdditions == {i \in 1..Len(analyses) : analyses[i].additions # << >>}

\* The operator approved the change summary and declined the per-group prompt
\* of every group with additions, of which there is at least one.
DeclinedEveryGroup ==
    /\ ~DryRun(args)
    /\ Logged("summary_yes")
    /\ GroupsWithAdditions # {}
    /\ Len(GroupAnswers) = Cardinality(GroupsWithAdditions)
    /\ \A n \in 1..Len(GroupAnswers) : GroupAnswers[n] = "enum_no"

\* C22: when, in an apply run, the operator has approved the change summary
\* and declined the per-group approval of every group with additions, no
\* addition is merged and the target file after the run is what it was before
\* the run: nothing is written and the version marker is not changed.
C22_DeclineAllKeepsFile ==
    (pc = "done" /\ DeclinedEveryGroup) =>
        /\ content = file0
        /\ file = file0
        /\ ~Logged("write")
        /\ ~Logged("marker")

\* ---------------------------------------------------------------------------
\* Extracted cases that share a value or repeat an existing name
\* ---------------------------------------------------------------------------

\* Cases of a definition: GO = 1 (covered by go = 1 of the commands block),
\* GO = 3 (the existing name, a new value), X = 2 and Y = 2 (two names, one
\* new value), and Q = 130 (above the boundary).
ClashCases ==
    {EnumCase(<< "G", "O" >>, 1), EnumCase(<< "G", "O" >>, 3),
     EnumCase(<< "X" >>, 2), EnumCase(<< "Y" >>, 2), EnumCase(<< "Q" >>, 130)}

\* self.enums: no definition, or one routed to the commands group or to the
\* response and push groups.
ClashDicts ==
    {<< >>} \cup {<< [name |-> n, cases |-> cs] >> :
                     n \in {Str_Cmd, Str_Packet},
                     cs \in SeqsUpTo(ClashCases, MaxDefCases)}

ClashInit ==
    /\ pc = "classify_input"
    /\ enums \in ClashDicts
    /\ file = RoutedFile
    /\ file0 = RoutedFile
    /\ args = NoArgs
    /\ backup = NoFile
    /\ attempt = 0
    /\ tries = 0
    /\ sleeps = << >>
    /\ net_error = "none"
    /\ source = NoSource
    /\ version_tag = DiffVersion
    /\ mapped = EmptyEnums
    /\ swift_enums = EmptyEnums
    /\ analyses = << >>
    /\ content = NoFile
    /\ idx = 0
    /\ merge_error = "none"
    /\ exit_code = NoExit
    /\ events = << >>

ClashSpec == ClashInit /\ [][RoutedNext]_vars

\* No two elements of the sequence are equal.
PairwiseDistinct(seq) ==
    \A i \in 1..Len(seq) : \A j \in 1..Len(seq) : i # j => seq[i] # seq[j]

\* The names, and the values, of the existing cases of group i followed by
\* the additions of its diff.
NamesWithAdditions(i) ==
    [k \in 1..Len(swift_enums[Groups[i]]) |-> swift_enums[Groups[i]][k].name]
        \o [k \in 1..Len(analyses[i].additions) |-> analyses[i].additions[k].name]

ValuesWithAdditions(i) ==
    [k \in 1..Len(swift_enums[Groups[i]]) |-> swift_enums[Groups[i]][k].value]
        \o [k \in 1..Len(analyses[i].additions) |-> analyses[i].additions[k].value]

\* C23: for every group whose existing cases have pairwise distinct values and
\* pairwise distinct names, the existing cases followed by the additions of
\* the group's diff have pairwise distinct values and pairwise distinct names.
C23_AdditionsKeepDistinct ==
    pc = "diff_done" =>
        \A i \in 1..Len(Groups) :
            LET n == Len(swift_enums[Groups[i]]) IN
            (/\ PairwiseDistinct(SubSeq(NamesWithAdditions(i), 1, n))
             /\ PairwiseDistinct(SubSeq(ValuesWithAdditions(i), 1, n)))
                => /\ PairwiseDistinct(NamesWithAdditions(i))
                   /\ PairwiseDistinct(ValuesWithAdditions(i))

====
